---- MODULE Spec2Model ----
(***************************************************************************)
(* The task dependency and execution engine of FOEDAG: TaskManager (the    *)
(* task registry, the execution queue m_taskQueue, the run stack           *)
(* m_runStack and the counters) together with the Task objects it owns.    *)
(*                                                                         *)
(* Qt signals are delivered synchronously (direct connections): a call of  *)
(* Task::setStatus runs TaskManager::runNext before it returns, so the     *)
(* handlers are operators over a record of the mutable state, calling each *)
(* other the way the C++ functions do.                                     *)
(***************************************************************************)
EXTENDS Integers, Sequences, FiniteSets, TLC

(***************************************************************************)
(* Bounds of the model.                                                    *)
(***************************************************************************)
\* The first NumStages pipeline stages can be bound, enabled and disabled;
\* the later stages are disabled in every configuration explored.
NumStages == 3
\* Direct finished-status writes are explored while counter is below MaxCounter.
MaxCounter == 3
\* File modification times range over 0..MaxTime (-1: the file cannot be stat'd).
MaxTime == 1
\* bindTaskCommand is called at most MaxBinds times on a task.
MaxBinds == 2

(***************************************************************************)
(* TaskStatus and TaskType.                                                *)
(***************************************************************************)
None == "None"
InProgress == "InProgress"
Success == "Success"
Fail == "Fail"
TaskStatus == {None, InProgress, Success, Fail}

\* The ten pipeline stages, in the order startAll() appends them.
Pipeline ==
  << "IP_GENERATE", "ANALYSIS", "SYNTHESIS", "PACKING", "GLOBAL_PLACEMENT",
     "PLACEMENT", "ROUTING", "TIMING_SIGN_OFF", "POWER", "BITSTREAM" >>

\* An execution queue in which Analysis and its Clean task changed places.
m_taskQueueCleanFirst ==
  << "IP_GENERATE", "ANALYSIS_CLEAN", "ANALYSIS", "SYNTHESIS",
     "SYNTHESIS_CLEAN", "PACKING", "PACKING_CLEAN", "GLOBAL_PLACEMENT",
     "GLOBAL_PLACEMENT_CLEAN", "PLACEMENT", "PLACEMENT_CLEAN", "ROUTING",
     "ROUTING_CLEAN", "TIMING_SIGN_OFF", "TIMING_SIGN_OFF_CLEAN", "POWER",
     "POWER_CLEAN", "BITSTREAM", "BITSTREAM_CLEAN" >>

\* The execution queue built by the constructor.
m_taskQueue ==
  << "IP_GENERATE", "ANALYSIS", "ANALYSIS_CLEAN", "SYNTHESIS",
     "SYNTHESIS_CLEAN", "PACKING", "PACKING_CLEAN", "GLOBAL_PLACEMENT",
     "GLOBAL_PLACEMENT_CLEAN", "PLACEMENT", "PLACEMENT_CLEAN", "ROUTING",
     "ROUTING_CLEAN", "TIMING_SIGN_OFF", "TIMING_SIGN_OFF_CLEAN", "POWER",
     "POWER_CLEAN", "BITSTREAM", "BITSTREAM_CLEAN" >>

\* The registry m_tasks, in the order of the constructor's inserts.
m_tasks ==
  << "IP_GENERATE", "ANALYSIS", "ANALYSIS_CLEAN", "SYNTHESIS",
     "SYNTHESIS_CLEAN", "SYNTHESIS_SETTINGS", "SYNTHESIS_WRITE_NETLIST",
     "SYNTHESIS_TIMING_REPORT", "PACKING", "PACKING_CLEAN",
     "GLOBAL_PLACEMENT", "GLOBAL_PLACEMENT_CLEAN", "PLACEMENT",
     "PLACEMENT_CLEAN", "PLACEMENT_SETTINGS", "PLACEMENT_WRITE_NETLIST",
     "PLACEMENT_TIMING_REPORT", "ROUTING", "ROUTING_CLEAN",
     "ROUTING_SETTINGS", "ROUTING_WRITE_NETLIST", "TIMING_SIGN_OFF",
     "TIMING_SIGN_OFF_CLEAN", "POWER", "POWER_CLEAN", "BITSTREAM",
     "BITSTREAM_CLEAN", "PLACE_AND_ROUTE_VIEW", "SIMULATE_RTL",
     "SIMULATE_RTL_CLEAN", "SIMULATE_RTL_SETTINGS", "SIMULATE_GATE",
     "SIMULATE_GATE_CLEAN", "SIMULATE_GATE_SETTINGS", "SIMULATE_PNR",
     "SIMULATE_PNR_CLEAN", "SIMULATE_PNR_SETTINGS", "SIMULATE_BITSTREAM",
     "SIMULATE_BITSTREAM_CLEAN", "SIMULATE_BITSTREAM_SETTINGS" >>

Range(s) == { s[i] : i \in 1..Len(s) }

\* The appendSubTask calls of the constructor, as << parent, sub-task >>.
subTasks ==
  << << "PACKING", "PACKING_CLEAN" >>,
     << "GLOBAL_PLACEMENT", "GLOBAL_PLACEMENT_CLEAN" >>,
     << "ANALYSIS", "ANALYSIS_CLEAN" >>,
     << "SYNTHESIS", "SYNTHESIS_CLEAN" >>,
     << "SYNTHESIS", "SYNTHESIS_SETTINGS" >>,
     << "SYNTHESIS", "SYNTHESIS_WRITE_NETLIST" >>,
     << "SYNTHESIS", "SYNTHESIS_TIMING_REPORT" >>,
     << "PLACEMENT", "PLACEMENT_CLEAN" >>,
     << "PLACEMENT", "PLACEMENT_SETTINGS" >>,
     << "PLACEMENT", "PLACEMENT_WRITE_NETLIST" >>,
     << "PLACEMENT", "PLACEMENT_TIMING_REPORT" >>,
     << "ROUTING", "ROUTING_CLEAN" >>,
     << "ROUTING", "ROUTING_SETTINGS" >>,
     << "ROUTING", "ROUTING_WRITE_NETLIST" >>,
     << "BITSTREAM", "BITSTREAM_CLEAN" >>,
     << "POWER", "POWER_CLEAN" >>,
     << "TIMING_SIGN_OFF", "TIMING_SIGN_OFF_CLEAN" >>,
     << "SIMULATE_RTL", "SIMULATE_RTL_CLEAN" >>,
     << "SIMULATE_RTL", "SIMULATE_RTL_SETTINGS" >>,
     << "SIMULATE_GATE", "SIMULATE_GATE_CLEAN" >>,
     << "SIMULATE_GATE", "SIMULATE_GATE_SETTINGS" >>,
     << "SIMULATE_PNR", "SIMULATE_PNR_CLEAN" >>,
     << "SIMULATE_PNR", "SIMULATE_PNR_SETTINGS" >>,
     << "SIMULATE_BITSTREAM", "SIMULATE_BITSTREAM_CLEAN" >>,
     << "SIMULATE_BITSTREAM", "SIMULATE_BITSTREAM_SETTINGS" >> >>

Tasks == Range(m_tasks)
Stages == Range(Pipeline)

CleanTasks ==
  { "ANALYSIS_CLEAN", "SYNTHESIS_CLEAN", "PACKING_CLEAN",
    "GLOBAL_PLACEMENT_CLEAN", "PLACEMENT_CLEAN", "ROUTING_CLEAN",
    "TIMING_SIGN_OFF_CLEAN", "POWER_CLEAN", "BITSTREAM_CLEAN",
    "SIMULATE_RTL_CLEAN", "SIMULATE_GATE_CLEAN", "SIMULATE_PNR_CLEAN",
    "SIMULATE_BITSTREAM_CLEAN" }

SettingsTasks ==
  { "SYNTHESIS_SETTINGS", "PLACEMENT_SETTINGS", "ROUTING_SETTINGS",
    "SIMULATE_RTL_SETTINGS", "SIMULATE_GATE_SETTINGS",
    "SIMULATE_PNR_SETTINGS", "SIMULATE_BITSTREAM_SETTINGS" }

\* Task::type(): the TaskType given to the Task constructor.
type(t) ==
  IF t \in CleanTasks THEN "Clean"
  ELSE IF t \in SettingsTasks THEN "Settings"
  ELSE IF t = "PLACE_AND_ROUTE_VIEW" THEN "Button"
  ELSE "Action"

\* Task::title(): the title given to the Task constructor.
title(t) ==
  IF t \in CleanTasks THEN "Clean"
  ELSE IF t \in SettingsTasks THEN "Edit settings..."
  ELSE CASE t = "IP_GENERATE" -> "IP Generate"
         [] t = "ANALYSIS" -> "Analysis"
         [] t = "SYNTHESIS" -> "Synthesis"
         [] t \in {"SYNTHESIS_WRITE_NETLIST", "PLACEMENT_WRITE_NETLIST",
                   "ROUTING_WRITE_NETLIST"} -> "Write netlist"
         [] t \in {"SYNTHESIS_TIMING_REPORT", "PLACEMENT_TIMING_REPORT"}
              -> "Timing report"
         [] t = "PACKING" -> "Packing"
         [] t = "GLOBAL_PLACEMENT" -> "Global Placement"
         [] t = "PLACEMENT" -> "Placement"
         [] t = "ROUTING" -> "Routing"
         [] t = "TIMING_SIGN_OFF" -> "Timing Analysis"
         [] t = "POWER" -> "Power"
         [] t = "BITSTREAM" -> "Bitstream Generation"
         [] t = "PLACE_AND_ROUTE_VIEW" -> "P&&R View"
         [] t = "SIMULATE_RTL" -> "Simulate RTL"
         [] t = "SIMULATE_GATE" -> "Simulate Gate"
         [] t = "SIMULATE_PNR" -> "Simulate PNR"
         [] t = "SIMULATE_BITSTREAM" -> "Simulate Bitstream"

(***************************************************************************)
(* What a bound command does when the task is triggered: "launch" starts a *)
(* monitored tool run whose outcome is reported later by ActionDone; "ok"  *)
(* and "fail" report Success or Fail before the command returns; "synth"  *)
(* is CompilerOpenFPGA::Synthesize, whose return value decides.            *)
(***************************************************************************)
CmdKinds == {"launch", "ok", "fail", "synth"}
\* The commands the tasks are bound to here: monitored tool runs.
BoundKinds == {"launch"}

VARIABLES
  status,       \* Task::m_status of every task of the registry
  valid,        \* Task::isValid(): a command is bound
  enabled,      \* Task::isEnable()
  cmd,          \* the commands connected to the task's taskTriggered, in order
  m_runStack,   \* TaskManager::m_runStack
  m_taskCount,  \* TaskManager::m_taskCount
  counter,      \* TaskManager::counter
  inflight,     \* tasks whose launched command has not reported yet
  emitted,      \* the signals emitted by the last operation, in order
  notified,     \* number of Task::statusChanged emissions of the last operation
  invoked,      \* tasks whose command was invoked since the last started()
  runTasks,     \* the run stack as it was when started() was last emitted
  runFailed,    \* tasks reported "Failed" since the last started()
  doneCount,    \* done() signals since the last started()
  runKind,      \* what emitted the last started(): "all", "task" or "none"
  atInvoke,     \* the statuses at the moment of the latest command invocation
  statusBefore, \* the statuses when the last operation was called
  compiler,     \* CompilerOpenFPGA and the files of the project directory
  writes,       \* the setStatus calls of the last operation with a status other than None
  lastOp        \* the last operation called on the manager and its arguments

vars ==
  << status, valid, enabled, cmd, m_runStack, m_taskCount, counter, inflight,
     emitted, notified, invoked, runTasks, runFailed, doneCount, runKind,
     atInvoke, statusBefore, compiler, writes, lastOp >>

(***************************************************************************)
(* The mutable state a handler works on, as one record.  Cur is the state  *)
(* at the start of an operation: the signal log of the previous operation  *)
(* is dropped.                                                             *)
(***************************************************************************)
Cur ==
  [ status |-> status, runStack |-> m_runStack, taskCount |-> m_taskCount,
    counter |-> counter, inflight |-> inflight, emitted |-> << >>,
    notified |-> 0, invoked |-> invoked, runTasks |-> runTasks,
    runFailed |-> runFailed, doneCount |-> doneCount, runKind |-> runKind,
    atInvoke |-> atInvoke, compiler |-> compiler, writes |-> << >> ]

\* emit started(): a listener starts a new record of the run; the event
\* carries counter and m_taskCount as the listener finds them.
emitStarted(st, kind) ==
  [ st EXCEPT !.emitted = Append(@, [sig |-> "started", completed |-> st.counter,
                                     total |-> st.taskCount, task |-> "",
                                     text |-> << >>]),
              !.invoked = << >>,
              !.runTasks = st.runStack,
              !.runFailed = {},
              !.doneCount = 0,
              !.runKind = kind ]

\* emit progress(completed, total, QString("%1 %2").arg(title, what)).
emitProgress(st, completed, total, t, what) ==
  [ st EXCEPT !.emitted = Append(@, [sig |-> "progress", completed |-> completed,
                                     total |-> total, task |-> t,
                                     text |-> << title(t), what >>]),
              !.runFailed = IF what = "Failed" THEN @ \cup {t} ELSE @ ]

\* emit done().
emitDone(st) ==
  [ st EXCEPT !.emitted = Append(@, [sig |-> "done", completed |-> 0,
                                     total |-> 0, task |-> "", text |-> << >>]),
              !.doneCount = @ + 1 ]

\* QList::removeAll(t).
removeAll(q, t) == SelectSeq(q, LAMBDA x : x # t)

RECURSIVE setStatus(_, _, _)
RECURSIVE statusChanged(_, _, _)
RECURSIVE runNext(_, _, _)
RECURSIVE run(_)
RECURSIVE trigger(_, _)
RECURSIVE stopFrom(_, _)
RECURSIVE setStatusNone(_, _, _)

\* The loops of reset() and cleanDownStreamStatus(): setStatus(None) on the
\* tasks of the list from position i to its end, one call after the other;
\* an iteration starts once the call before it has delivered its
\* notification.
setStatusNone(st, list, i) ==
  IF i > Len(list)
    THEN st
    ELSE LET s1 == setStatus(st, list[i], None)
         IN IF s1.notified > st.notified
              THEN setStatusNone(s1, list, i + 1)
              ELSE s1

\* cleanDownStreamStatus resetting the given task alone.
cleanOnlyTask(st, t) == setStatus(st, t, None)

\* cleanDownStreamStatus without the step back to the parent of a Clean task.
cleanNoParent(st, t) ==
  LET at == { i \in 1..Len(m_taskQueue) : m_taskQueue[i] = t } IN
  IF at = {}
    THEN st
    ELSE LET it == CHOOSE i \in at : \A j \in at : i <= j
         IN setStatusNone(st, m_taskQueue, it)

\* TaskManager::cleanDownStreamStatus(t).
cleanDownStreamStatus(st, t) ==
  LET at == { i \in 1..Len(m_taskQueue) : m_taskQueue[i] = t } IN
  IF at = {}
    THEN st
    ELSE LET it == CHOOSE i \in at : \A j \in at : i <= j
             from == IF type(t) = "Clean" /\ it # 1 THEN it - 1 ELSE it
         IN setStatusNone(st, m_taskQueue, from)

(***************************************************************************)
(* CompilerOpenFPGA: the synthesis step and its change detector.  The      *)
(* record c holds the compiler's fields and the files it reads and writes: *)
(*   mtime        modification time of every input file (-1: no stat)      *)
(*   netlist      modification time of <project>_post_synth.blif           *)
(*   netlistV     modification time of <project>_post_synth.v              *)
(*   savedScript  content of <project>.ys ("" with good = FALSE: no file)  *)
(*   yosysScript  the script generated from the project's configuration    *)
(*   gateLevel    a design file is a gate-level netlist                    *)
(*   yosysExists  FileExists(m_yosysExecutablePath)                        *)
(*   tool         what the tool run does when it is executed: "ok" exits   *)
(*                with 0 after writing the artifacts, "fail" exits        *)
(*                non-zero before write_blif, "failLate" after it         *)
(*   cwd          the working directory of the process                    *)
(*   bitsOpt      BitsOpt(): "NoBitsOpt" or "Force"                        *)
(*   now          the time of the file system clock                        *)
(*   m_state      State::Synthesized once the tool has succeeded           *)
(*   changed, removed, wrote, executed, result: what the last Synthesize   *)
(*   call found and did, and its return value.                             *)
(***************************************************************************)
\* The entries of the project's file lists, each as Tokenize(entry, " ")
\* followed by Trim gives it: an entry that ends with a space has an empty
\* last token.
DesignFiles == << << "top.v", "" >> >>
includePathList == << << "inc" >> >>
libraryPathList == << << "lib" >> >>

InputFiles == {"top.v", "inc", "lib"}
\* What a run of the synthesis tool can do.
ToolOutcomes == {"ok", "fail", "failLate"}
Scripts == {"s1", "s2"}
Times == 0..MaxTime

\* Mtime(file): -1 when the file cannot be stat'd.
Mtime(c, file) == c.mtime[file]

RECURSIVE scanTokens(_, _, _, _)
\* The inner loop over the tokens of one entry, from token i: TRUE when it
\* sets result = true (and breaks).
scanTokens(c, tokens, i, time_netlist) ==
  IF i > Len(tokens)
    THEN FALSE
    ELSE IF tokens[i] # ""
              /\ LET tf == Mtime(c, tokens[i])
                 IN (tf > time_netlist) \/ (tf = -1)
           THEN TRUE
           ELSE scanTokens(c, tokens, i + 1, time_netlist)

RECURSIVE scanList(_, _, _, _)
\* The outer loop over the entries of one list, from entry i.
scanList(c, list, i, time_netlist) ==
  IF i > Len(list)
    THEN FALSE
    ELSE LET r == scanTokens(c, list[i], 1, time_netlist)
         IN r \/ scanList(c, list, i + 1, time_netlist)

\* DesignChanged without the loop over libraryPathList().
DesignChangedNoLibs(c, synth_script) ==
  LET time_netlist == c.netlist
      r0 == (time_netlist = -1)
      r1 == scanList(c, DesignFiles, 1, time_netlist)
      r2 == scanList(c, includePathList, 1, time_netlist)
      r4 == ~c.savedScript.good
      r5 == synth_script # c.savedScript.text
  IN r0 \/ r1 \/ r2 \/ r4 \/ r5

\* CompilerOpenFPGA::DesignChanged(synth_script, synth_scrypt_path).
DesignChanged(c, synth_script) ==
  LET time_netlist == c.netlist
      r0 == (time_netlist = -1)
      r1 == scanList(c, DesignFiles, 1, time_netlist)
      r2 == scanList(c, includePathList, 1, time_netlist)
      r3 == scanList(c, libraryPathList, 1, time_netlist)
      r4 == ~c.savedScript.good
      r5 == synth_script # c.savedScript.text
  IN r0 \/ r1 \/ r2 \/ r3 \/ r4 \/ r5

\* DesignChanged returning as soon as it finds the artifact missing, inside
\* the project directory.
DesignChangedCwdEarly(c) ==
  LET path == c.cwd
      inside == << path, "project" >>
  IN IF c.netlist = -1 THEN inside ELSE path

\* The working directory DesignChanged leaves: it saves current_path(),
\* enters the project directory and sets the saved path again at its end.
DesignChangedCwd(c) ==
  LET path == c.cwd
      inside == << path, "project" >>
      c1 == [c EXCEPT !.cwd = inside]
      c2 == [c1 EXCEPT !.cwd = path]
  IN c2.cwd

\* Synthesize running the tool whatever DesignChanged returns.
SynthesizeAlways(c) ==
  LET c0 == [c EXCEPT !.changed = DesignChanged(c, c.yosysScript),
                      !.removed = TRUE, !.wrote = TRUE, !.executed = TRUE,
                      !.netlist = -1, !.netlistV = -1,
                      !.savedScript = [good |-> TRUE, text |-> c.yosysScript]]
  IN IF c.tool = "ok"
       THEN [c0 EXCEPT !.m_state = "Synthesized", !.netlist = c.now,
                       !.netlistV = c.now, !.result = TRUE]
       ELSE [c0 EXCEPT !.result = FALSE]

\* CompilerOpenFPGA::Synthesize() on a project that has a design.
Synthesize(c) ==
  LET c0 == [c EXCEPT !.changed = FALSE, !.removed = FALSE, !.wrote = FALSE,
                      !.executed = FALSE]
      cd == [c0 EXCEPT !.cwd = DesignChangedCwd(c0)]
  IN IF c.gateLevel
       THEN [c0 EXCEPT !.result = TRUE]
       ELSE IF ~DesignChanged(c0, c0.yosysScript)
         THEN [cd EXCEPT !.result = TRUE]
         ELSE LET c1 == [cd EXCEPT !.changed = TRUE,
                                   !.netlist = -1, !.netlistV = -1,
                                   !.removed = TRUE,
                                   !.savedScript = [good |-> TRUE,
                                                    text |-> c0.yosysScript],
                                   !.wrote = TRUE]
              IN IF ~c1.yosysExists
                   THEN [c1 EXCEPT !.result = FALSE]
                   ELSE CASE c1.tool = "ok" ->
                               [c1 EXCEPT !.executed = TRUE,
                                          !.m_state = "Synthesized",
                                          !.netlist = c1.now, !.netlistV = c1.now,
                                          !.result = TRUE]
                          [] c1.tool = "failLate" ->
                               [c1 EXCEPT !.executed = TRUE,
                                          !.netlist = c1.now,
                                          !.result = FALSE]
                          [] OTHER ->
                               [c1 EXCEPT !.executed = TRUE, !.result = FALSE]

(***************************************************************************)
(* The stages after synthesis.  env is what a call finds outside the       *)
(* compiler, in the order the code asks for it: "nodesign" (HasDesign() is *)
(* false), "missing" (the executable does not exist), "fail" (the tool     *)
(* exits non-zero) or "ok".                                                *)
(***************************************************************************)
Envs == {"nodesign", "missing", "fail", "ok"}
BitstreamOpts == {"NoBitsOpt", "Force"}
PlacementReady == {"Packed", "GloballyPlaced", "Placed"}

\* A call returning r without running a tool and without touching m_state.
Returns(c, r) == [c EXCEPT !.executed = FALSE, !.result = r]

\* ExecuteAndMonitorSystemCommand followed by the test of its status: on
\* status 0 the stage sets m_state and returns true.
Executes(c, env, state) ==
  IF env = "ok"
    THEN [c EXCEPT !.executed = TRUE, !.result = TRUE, !.m_state = state]
    ELSE [c EXCEPT !.executed = TRUE, !.result = FALSE]

\* CompilerOpenFPGA::IPGenerate.
IPGenerate(c, env) ==
  IF env = "nodesign"
    THEN Returns(c, FALSE)
    ELSE [Returns(c, TRUE) EXCEPT !.m_state = "IPGenerated"]

\* CompilerOpenFPGA::Packing.
Packing(c, env) ==
  IF env = "nodesign" THEN Returns(c, FALSE)
  ELSE IF env = "missing" THEN Returns(c, FALSE)
  ELSE Executes(c, env, "Packed")

\* CompilerOpenFPGA::GlobalPlacement.
GlobalPlacement(c, env) ==
  IF env = "nodesign" THEN Returns(c, FALSE)
  ELSE IF c.m_state \notin PlacementReady THEN Returns(c, FALSE)
  ELSE [Returns(c, TRUE) EXCEPT !.m_state = "GloballyPlaced"]

\* CompilerOpenFPGA::Placement.
Placement(c, env) ==
  IF env = "nodesign" THEN Returns(c, FALSE)
  ELSE IF c.m_state \notin PlacementReady THEN Returns(c, FALSE)
  ELSE IF env = "missing" THEN Returns(c, FALSE)
  ELSE Executes(c, env, "Placed")

\* Route without the test of m_state.
RouteAnyState(c, env) ==
  IF env = "nodesign" THEN Returns(c, FALSE)
  ELSE IF env = "missing" THEN Returns(c, FALSE)
  ELSE Executes(c, env, "Routed")

\* CompilerOpenFPGA::Route.
Route(c, env) ==
  IF env = "nodesign" THEN Returns(c, FALSE)
  ELSE IF c.m_state # "Placed" THEN Returns(c, FALSE)
  ELSE IF env = "missing" THEN Returns(c, FALSE)
  ELSE Executes(c, env, "Routed")

\* CompilerOpenFPGA::GenerateBitstream.
GenerateBitstream(c, env) ==
  IF env = "nodesign" THEN Returns(c, FALSE)
  ELSE IF c.bitsOpt = "NoBitsOpt" /\ c.m_state # "Routed" THEN Returns(c, FALSE)
  ELSE IF c.bitsOpt = "NoBitsOpt" THEN Returns(c, TRUE)
  ELSE IF env = "missing" THEN Returns(c, FALSE)
  ELSE Executes(c, env, "BistreamGenerated")

\* The compiler of a session that never synthesizes: no files.
NoProject ==
  [ mtime |-> [f \in InputFiles |-> -1], netlist |-> -1, netlistV |-> -1,
    savedScript |-> [good |-> FALSE, text |-> ""], yosysScript |-> "s1",
    gateLevel |-> FALSE, yosysExists |-> FALSE, tool |-> "ok", now |-> 0,
    cwd |-> << "root" >>, bitsOpt |-> "NoBitsOpt", m_state |-> "None", changed |-> FALSE, removed |-> FALSE, wrote |-> FALSE,
    executed |-> FALSE, result |-> FALSE ]


\* Task::setStatus(s): writes the status and emits statusChanged(s).
setStatus(st, t, s) ==
  statusChanged([st EXCEPT !.status[t] = s,
                           !.writes = IF s = None
                                        THEN @
                                        ELSE Append(@, [task |-> t,
                                                        from |-> st.status[t],
                                                        to |-> s])],
                t, s)

\* The connections the constructor makes for every task of m_tasks:
\* statusChanged runs TaskManager::runNext and is forwarded as the signal
\* TaskManager::taskStateChanged, which notified counts.
statusChanged(st, t, s) ==
  LET s1 == runNext(st, t, s) IN [s1 EXCEPT !.notified = @ + 1]

\* runNext advancing the run as soon as a task reports InProgress: only a
\* Fail status is told from the rest.
runNextAdvancesEarly(st, t, s) ==
  IF s = None
    THEN st
    ELSE LET statusStr == IF s = Fail THEN "Failed" ELSE "Complete"
             s1 == [st EXCEPT !.counter = @ + 1]
             s2 == emitProgress(s1, s1.counter, s1.taskCount, t, statusStr)
             s3 == IF s # Fail
                     THEN LET r == [s2 EXCEPT !.runStack = removeAll(@, t)]
                          IN IF r.runStack # << >> THEN run(r) ELSE r
                     ELSE [s2 EXCEPT !.runStack = << >>]
         IN IF s3.runStack = << >> THEN emitDone(s3) ELSE s3

\* runNext going on with the next task after a Fail instead of clearing the
\* run stack.
runNextNoAbort(st, t, s) ==
  LET finished == (s = Success \/ s = Fail) IN
  IF ~finished
    THEN IF s = InProgress /\ st.counter = 0 /\ st.taskCount # 0
           THEN emitProgress(st, st.counter, st.taskCount, t, "Running")
           ELSE st
    ELSE LET statusStr == IF s = Fail THEN "Failed" ELSE "Complete"
             s1 == [st EXCEPT !.counter = @ + 1]
             s2 == emitProgress(s1, s1.counter, s1.taskCount, t, statusStr)
             r == [s2 EXCEPT !.runStack = removeAll(@, t)]
             s3 == IF r.runStack # << >> THEN run(r) ELSE r
         IN IF s3.runStack = << >> THEN emitDone(s3) ELSE s3

\* runNext returning at once when the sender is not on the run stack.
runNextIgnoresOffStack(st, t, s) ==
  LET finished == (s = Success \/ s = Fail) IN
  IF t \notin Range(st.runStack)
    THEN st
    ELSE IF ~finished
      THEN IF s = InProgress /\ st.counter = 0 /\ st.taskCount # 0
             THEN emitProgress(st, st.counter, st.taskCount, t, "Running")
             ELSE st
      ELSE LET statusStr == IF s = Fail THEN "Failed" ELSE "Complete"
               s1 == [st EXCEPT !.counter = @ + 1]
               s2 == emitProgress(s1, s1.counter, s1.taskCount, t, statusStr)
               s3 == IF s = Success
                       THEN LET r == [s2 EXCEPT !.runStack = removeAll(@, t)]
                            IN IF r.runStack # << >> THEN run(r) ELSE r
                       ELSE [s2 EXCEPT !.runStack = << >>]
           IN IF s3.runStack = << >> THEN emitDone(s3) ELSE s3

\* runNext emitting progress(counter++, ...): the value before the increment.
runNextPostIncrement(st, t, s) ==
  LET finished == (s = Success \/ s = Fail) IN
  IF ~finished
    THEN IF s = InProgress /\ st.counter = 0 /\ st.taskCount # 0
           THEN emitProgress(st, st.counter, st.taskCount, t, "Running")
           ELSE st
    ELSE LET statusStr == IF s = Fail THEN "Failed" ELSE "Complete"
             s1 == [st EXCEPT !.counter = @ + 1]
             s2 == emitProgress(s1, st.counter, s1.taskCount, t, statusStr)
             s3 == IF s = Success
                     THEN LET r == [s2 EXCEPT !.runStack = removeAll(@, t)]
                          IN IF r.runStack # << >> THEN run(r) ELSE r
                     ELSE [s2 EXCEPT !.runStack = << >>]
         IN IF s3.runStack = << >> THEN emitDone(s3) ELSE s3

\* runNext taking every status but InProgress for a finished one: a None
\* is counted and reported like a Success or Fail.
runNextNoneFinished(st, t, s) ==
  IF s = InProgress
    THEN IF st.counter = 0 /\ st.taskCount # 0
           THEN emitProgress(st, st.counter, st.taskCount, t, "Running")
           ELSE st
    ELSE LET statusStr == IF s = Fail THEN "Failed" ELSE "Complete"
             s1 == [st EXCEPT !.counter = @ + 1]
             s2 == emitProgress(s1, s1.counter, s1.taskCount, t, statusStr)
             s3 == IF s = Success
                     THEN LET r == [s2 EXCEPT !.runStack = removeAll(@, t)]
                          IN IF r.runStack # << >> THEN run(r) ELSE r
                     ELSE IF s = Fail
                       THEN [s2 EXCEPT !.runStack = << >>]
                       ELSE s2
         IN IF s3.runStack = << >> THEN emitDone(s3) ELSE s3

\* TaskManager::runNext(status), with t the sender of the signal.
runNext(st, t, s) ==
  LET finished == (s = Success \/ s = Fail) IN
  IF ~finished
    THEN IF s = InProgress /\ st.counter = 0 /\ st.taskCount # 0
           THEN emitProgress(st, st.counter, st.taskCount, t, "Running")
           ELSE st
    ELSE LET statusStr == IF s = Fail THEN "Failed" ELSE "Complete"
             s1 == [st EXCEPT !.counter = @ + 1]
             s2 == emitProgress(s1, s1.counter, s1.taskCount, t, statusStr)
             s3 == IF s = Success
                     THEN LET r == [s2 EXCEPT !.runStack = removeAll(@, t)]
                          IN IF r.runStack # << >> THEN run(r) ELSE r
                     ELSE [s2 EXCEPT !.runStack = << >>]
         IN IF s3.runStack = << >> THEN emitDone(s3) ELSE s3

\* run marking the head InProgress itself before it triggers it.
runMarksHead(st) ==
  IF st.runStack # << >>
    THEN LET task == Head(st.runStack)
             s1 == cleanDownStreamStatus(st, task)
             s2 == setStatus(s1, Head(s1.runStack), InProgress)
         IN IF s2.runStack # << >> THEN trigger(s2, Head(s2.runStack)) ELSE s2
    ELSE st

\* TaskManager::run().
run(st) ==
  IF st.runStack # << >>
    THEN LET task == Head(st.runStack)
             s1 == cleanDownStreamStatus(st, task)
         IN trigger(s1, Head(s1.runStack))
    ELSE st

\* One command c connected to task t runs.
command(st, t, c) ==
  CASE c = "launch" -> [st EXCEPT !.inflight = @ \cup {t}]
    [] c = "ok" -> setStatus(st, t, Success)
    [] c = "fail" -> setStatus(st, t, Fail)
    [] c = "synth" ->
         LET s3 == [st EXCEPT !.compiler = Synthesize(@)]
         IN setStatus(s3, t, IF s3.compiler.result THEN Success ELSE Fail)
    [] OTHER -> st

RECURSIVE taskTriggered(_, _, _)
\* emit taskTriggered(): every lambda that bindTaskCommand connected to the
\* signal is called, in the order of the connections, from connection i.
taskTriggered(st, t, i) ==
  IF i > Len(cmd[t])
    THEN st
    ELSE taskTriggered(command(st, t, cmd[t][i]), t, i + 1)

\* Task::trigger(): nothing when the task is unbound or disabled; otherwise
\* the status becomes InProgress and the bound command is invoked.
trigger(st, t) ==
  IF ~valid[t] \/ ~enabled[t]
    THEN st
    ELSE LET s1 == setStatus(st, t, InProgress)
             s2 == [s1 EXCEPT !.invoked = Append(@, t), !.atInvoke = s1.status]
         IN taskTriggered(s2, t, 1)

\* TaskManager::reset().
reset(st) == setStatusNone(st, m_tasks, 1)

\* The loop of TaskManager::stopCurrentTask() from registry position i: the
\* next task found InProgress is set to Fail, and the loop goes on after it.
stopFrom(st, i) ==
  LET found == { j \in i..Len(m_tasks) : st.status[m_tasks[j]] = InProgress } IN
  IF found = {}
    THEN st
    ELSE LET j == CHOOSE k \in found : \A l \in found : k <= l
         IN stopFrom(setStatus(st, m_tasks[j], Fail), j + 1)

\* stopCurrentTask resetting the running tasks to None, as reset() does.
stopCurrentTaskResets(st) ==
  LET hit == { t \in Tasks : st.status[t] = InProgress }
  IN IF hit = {} THEN st ELSE setStatus(st, CHOOSE t \in hit : TRUE, None)

\* stopCurrentTask failing the head of the run stack only.
stopCurrentTaskHeadOnly(st) ==
  IF st.runStack # << >> /\ st.status[Head(st.runStack)] = InProgress
    THEN setStatus(st, Head(st.runStack), Fail)
    ELSE st

\* stopCurrentTask failing every task that is not None.
stopCurrentTaskNotNone(st) ==
  LET hit == { t \in Tasks : st.status[t] # None }
  IN IF hit = {} THEN st ELSE setStatus(st, CHOOSE t \in hit : TRUE, Fail)

\* TaskManager::stopCurrentTask().
stopCurrentTask(st) == stopFrom(st, 1)

\* appendTask putting the task in front of the run stack.
appendTaskFront(st, t) ==
  IF enabled[t] THEN [st EXCEPT !.runStack = << t >> \o @] ELSE st

RECURSIVE statusFrom(_, _)
\* The loop of TaskManager::status() over m_tasks from position i, on the
\* statuses f.
statusFrom(f, i) ==
  IF i > Len(m_tasks)
    THEN None
    ELSE IF f[m_tasks[i]] = InProgress
      THEN InProgress
      ELSE statusFrom(f, i + 1)

\* status() returning the status of the first task that is not None.
managerStatusFirstSet(f) ==
  IF \E i \in 1..Len(m_tasks) : f[m_tasks[i]] # None
    THEN f[m_tasks[CHOOSE i \in 1..Len(m_tasks) :
                     /\ f[m_tasks[i]] # None
                     /\ \A j \in 1..(i - 1) : f[m_tasks[j]] = None]]
    ELSE None

\* TaskManager::status().
managerStatus(f) == statusFrom(f, 1)

\* TaskManager::appendTask(t).
appendTask(st, t) ==
  IF enabled[t] THEN [st EXCEPT !.runStack = Append(@, t)] ELSE st

RECURSIVE appendAll(_, _)
\* The ten appendTask calls of startAll(), from pipeline position i.
appendAll(st, i) ==
  IF i > Len(Pipeline) THEN st ELSE appendAll(appendTask(st, Pipeline[i]), i + 1)

\* startAll without the test for an active run.
startAllNoGuard(st) ==
  LET s1 == reset(st)
      s2 == appendAll(s1, 1)
      s3 == [s2 EXCEPT !.taskCount = Len(s2.runStack), !.counter = 0]
  IN run(emitStarted(s3, "all"))

\* startAll emitting started() before it records the counts.
startAllCountsLate(st) ==
  IF st.runStack # << >>
    THEN st
    ELSE LET s1 == reset(st)
             s2 == appendAll(s1, 1)
             s3 == emitStarted(s2, "all")
             s4 == [s3 EXCEPT !.taskCount = Len(s3.runStack), !.counter = 0]
         IN run(s4)

\* TaskManager::startAll().
startAll(st) ==
  IF st.runStack # << >>
    THEN st
    ELSE LET s1 == reset(st)
             s2 == appendAll(s1, 1)
             s3 == [s2 EXCEPT !.taskCount = Len(s2.runStack), !.counter = 0]
         IN run(emitStarted(s3, "all"))

\* startTask testing isValid() alone, not isEnable().
startTaskValidOnly(st, t) ==
  IF st.runStack # << >>
    THEN st
    ELSE IF ~valid[t]
      THEN st
      ELSE LET s1 == appendTask(st, t)
               s2 == [s1 EXCEPT !.taskCount = Len(s1.runStack), !.counter = 0]
           IN run(emitStarted(s2, "task"))

\* startTask resetting every task first, as startAll does.
startTaskResets(st, t) ==
  IF st.runStack # << >>
    THEN st
    ELSE IF ~valid[t] \/ ~enabled[t]
      THEN st
      ELSE LET s1 == appendTask(reset(st), t)
               s2 == [s1 EXCEPT !.taskCount = Len(s1.runStack), !.counter = 0]
           IN run(emitStarted(s2, "task"))

\* TaskManager::startTask(Task *t).
startTask(st, t) ==
  IF st.runStack # << >>
    THEN st
    ELSE IF ~valid[t] \/ ~enabled[t]
      THEN st
      ELSE LET s1 == appendTask(st, t)
               s2 == [s1 EXCEPT !.taskCount = Len(s1.runStack), !.counter = 0]
           IN run(emitStarted(s2, "task"))

(***************************************************************************)
(* The state machine.                                                      *)
(***************************************************************************)
FirstStages == { Pipeline[i] : i \in 1..NumStages }

\* Tasks outside the pipeline that the model binds and starts: a Clean
\* sub-task of the queue and a stage that is not in the queue.
ExtraTasks == { "ANALYSIS_CLEAN", "SIMULATE_RTL" }

Bindable == FirstStages \cup ExtraTasks

\* The tasks that are bound, started and written to where direct status
\* writes are explored: the first two stages.
ExtTargets == { Pipeline[1], Pipeline[2] }

\* The enable configurations explored: of the first NumStages stages at most
\* one is disabled, the later stages are disabled, every other task is
\* enabled.
EnableConfigs ==
  { [ t \in Tasks |-> IF t \in Stages THEN t \in FirstStages \ d ELSE TRUE ] :
      d \in {{}} \cup { {x} : x \in FirstStages } }

\* Writes the record a handler returns back to the variables.
Commit(st) ==
  /\ status' = st.status
  /\ m_runStack' = st.runStack
  /\ m_taskCount' = st.taskCount
  /\ counter' = st.counter
  /\ inflight' = st.inflight
  /\ emitted' = st.emitted
  /\ notified' = st.notified
  /\ invoked' = st.invoked
  /\ runTasks' = st.runTasks
  /\ runFailed' = st.runFailed
  /\ doneCount' = st.doneCount
  /\ runKind' = st.runKind
  /\ atInvoke' = st.atInvoke
  /\ compiler' = st.compiler
  /\ writes' = st.writes
  /\ statusBefore' = status

Init ==
  /\ status = [t \in Tasks |-> None]
  /\ valid = [t \in Tasks |-> FALSE]
  /\ enabled \in EnableConfigs
  /\ cmd = [t \in Tasks |-> << >>]
  /\ m_runStack = << >>
  /\ m_taskCount = 0
  /\ counter = 0
  /\ inflight = {}
  /\ emitted = << >>
  /\ notified = 0
  /\ invoked = << >>
  /\ runTasks = << >>
  /\ runFailed = {}
  /\ doneCount = 0
  /\ runKind = "none"
  /\ atInvoke = [t \in Tasks |-> None]
  /\ statusBefore = [t \in Tasks |-> None]
  /\ compiler = NoProject
  /\ writes = << >>
  /\ lastOp = [op |-> "init", task |-> "", arg |-> "", active |-> FALSE]

\* TaskManager::bindTaskCommand(t, cmd): one more connection to the task's
\* taskTriggered signal, and setValid(true).
BindTaskCommand(t, c) ==
  /\ Len(cmd[t]) < MaxBinds
  /\ valid' = [valid EXCEPT ![t] = TRUE]
  /\ cmd' = [cmd EXCEPT ![t] = Append(@, c)]
  /\ emitted' = << >>
  /\ notified' = 0
  /\ writes' = << >>
  /\ statusBefore' = status
  /\ lastOp' = [op |-> "bindTaskCommand", task |-> t, arg |-> c,
                active |-> m_runStack # << >>]
  /\ UNCHANGED << status, enabled, m_runStack, m_taskCount, counter, inflight,
                  invoked, runTasks, runFailed, doneCount, runKind, atInvoke,
                  compiler >>

\* A call of startAll().
StartAll ==
  /\ Commit(startAll(Cur))
  /\ lastOp' = [op |-> "startAll", task |-> "", arg |-> "", active |-> m_runStack # << >>]
  /\ UNCHANGED << valid, enabled, cmd >>

\* A call of startTask(id).
StartTask(t) ==
  /\ Commit(startTask(Cur, t))
  /\ lastOp' = [op |-> "startTask", task |-> t, arg |-> "", active |-> m_runStack # << >>]
  /\ UNCHANGED << valid, enabled, cmd >>

\* A call of stopCurrentTask(); the tool runs of the stopped tasks are
\* killed, the forced Fail is their report.
StopCurrentTask ==
  /\ LET st == stopCurrentTask(Cur)
     IN Commit([st EXCEPT !.inflight =
                  @ \ { t \in Tasks : status[t] = InProgress }])
  /\ lastOp' = [op |-> "stopCurrentTask", task |-> "", arg |-> "",
                active |-> m_runStack # << >>]
  /\ UNCHANGED << valid, enabled, cmd >>

\* The launched command of task t reports its outcome: the task's status is
\* set to Success or Fail.
ActionDone(t, ok) ==
  /\ t \in inflight
  /\ Commit(setStatus([Cur EXCEPT !.inflight = @ \ {t}], t,
                      IF ok THEN Success ELSE Fail))
  /\ lastOp' = [op |-> "actionDone", task |-> t,
                arg |-> IF ok THEN Success ELSE Fail,
                active |-> m_runStack # << >>]
  /\ UNCHANGED << valid, enabled, cmd >>

Next ==
  \/ \E t \in Bindable, c \in BoundKinds : ~valid[t] /\ BindTaskCommand(t, c)
  \/ StartAll
  \/ \E t \in Bindable : StartTask(t)
  \/ StopCurrentTask
  \/ \E t \in Tasks, ok \in BOOLEAN : ActionDone(t, ok)

Spec == Init /\ [][Next]_vars

(***************************************************************************)
(* Rebinding: bindTaskCommand is called again on a task that is already    *)
(* bound, with commands that report Success or Fail before they return,    *)
(* and the task is started.                                                *)
(***************************************************************************)
RebindKinds == {"ok", "fail"}

NextRebind ==
  \/ \E t \in ExtTargets, c \in RebindKinds : BindTaskCommand(t, c)
  \/ \E t \in ExtTargets : StartTask(t)

SpecRebind == Init /\ [][NextRebind]_vars

(***************************************************************************)
(* The full pipeline: all ten stages are bound, either all to monitored    *)
(* tool runs or all to commands that report Success before they return,    *)
(* and every enable configuration of the ten stages is explored.           *)
(***************************************************************************)
EnableConfigsAll ==
  { [ t \in Tasks |-> IF t \in Stages THEN t \in on ELSE TRUE ] :
      on \in SUBSET Stages }

InitOrder ==
  /\ status = [t \in Tasks |-> None]
  /\ valid = [t \in Tasks |-> t \in Stages]
  /\ enabled \in EnableConfigsAll
  /\ \E k \in {"launch", "ok"} :
       cmd = [t \in Tasks |-> IF t \in Stages THEN << k >> ELSE << >>]
  /\ m_runStack = << >>
  /\ m_taskCount = 0
  /\ counter = 0
  /\ inflight = {}
  /\ emitted = << >>
  /\ notified = 0
  /\ invoked = << >>
  /\ runTasks = << >>
  /\ runFailed = {}
  /\ doneCount = 0
  /\ runKind = "none"
  /\ atInvoke = [t \in Tasks |-> None]
  /\ statusBefore = [t \in Tasks |-> None]
  /\ compiler = NoProject
  /\ writes = << >>
  /\ lastOp = [op |-> "init", task |-> "", arg |-> "", active |-> FALSE]

NextOrder ==
  \/ StartAll
  \/ \E t \in Tasks, ok \in BOOLEAN : ActionDone(t, ok)

SpecOrder == InitOrder /\ [][NextOrder]_vars

(***************************************************************************)
(* Direct status writes: besides the operations of the manager, callers    *)
(* that hold a Task (the compiler, the task view) call Task::setStatus on  *)
(* it at any time; the outcome of a tool run is such a write.  The tasks   *)
(* of ExtTargets are bound to monitored tool runs and, of the stages, the  *)
(* first two are enabled.  counter grows with every finished status, so    *)
(* writes and stops are explored while it is below MaxCounter.             *)
(***************************************************************************)
InitExt ==
  /\ status = [t \in Tasks |-> None]
  /\ valid = [t \in Tasks |-> t \in ExtTargets]
  /\ enabled = [t \in Tasks |-> IF t \in Stages THEN t \in ExtTargets ELSE TRUE]
  /\ cmd = [t \in Tasks |-> IF t \in ExtTargets THEN << "launch" >> ELSE << >>]
  /\ m_runStack = << >>
  /\ m_taskCount = 0
  /\ counter = 0
  /\ inflight = {}
  /\ emitted = << >>
  /\ notified = 0
  /\ invoked = << >>
  /\ runTasks = << >>
  /\ runFailed = {}
  /\ doneCount = 0
  /\ runKind = "none"
  /\ atInvoke = [t \in Tasks |-> None]
  /\ statusBefore = [t \in Tasks |-> None]
  /\ compiler = NoProject
  /\ writes = << >>
  /\ lastOp = [op |-> "init", task |-> "", arg |-> "", active |-> FALSE]

\* A call of Task::setStatus(s) on task t from outside the manager.
SetStatus(t, s) ==
  /\ (s = Success \/ s = Fail) => counter < MaxCounter
  /\ Commit(setStatus(Cur, t, s))
  /\ lastOp' = [op |-> "setStatus", task |-> t, arg |-> s,
                active |-> m_runStack # << >>]
  /\ UNCHANGED << valid, enabled, cmd >>

\* A call of reset().
Reset ==
  /\ Commit(reset(Cur))
  /\ lastOp' = [op |-> "reset", task |-> "", arg |-> "", active |-> m_runStack # << >>]
  /\ UNCHANGED << valid, enabled, cmd >>

\* A call of status(); its return value is kept in lastOp.arg.
StatusCall ==
  /\ emitted' = << >>
  /\ notified' = 0
  /\ writes' = << >>
  /\ statusBefore' = status
  /\ lastOp' = [op |-> "status", task |-> "", arg |-> managerStatus(status),
                active |-> m_runStack # << >>]
  /\ UNCHANGED << status, valid, enabled, cmd, m_runStack, m_taskCount, counter,
                  inflight, invoked, runTasks, runFailed, doneCount, runKind,
                  atInvoke, compiler >>

NextExt ==
  \/ StartAll
  \/ Reset
  \/ StatusCall
  \/ \E t \in ExtTargets : StartTask(t)
  \/ (counter < MaxCounter /\ StopCurrentTask)
  \/ \E t \in ExtTargets, s \in TaskStatus : SetStatus(t, s)

SpecExt == InitExt /\ [][NextExt]_vars

(***************************************************************************)
(* Synthesis: the SYNTHESIS task is bound to CompilerOpenFPGA::Synthesize  *)
(* and started alone; between the runs the input files are touched and    *)
(* the configuration that the script is generated from is edited.  The     *)
(* project directory starts in any state: every file missing or present    *)
(* with any modification time up to now.                                   *)
(***************************************************************************)
Projects ==
  { [ NoProject EXCEPT !.mtime = m, !.netlist = n, !.netlistV = v,
                       !.savedScript = sv, !.yosysScript = ys,
                       !.gateLevel = g, !.yosysExists = x, !.now = now ] :
      now \in Times,
      m \in [InputFiles -> -1..MaxTime],
      n \in -1..MaxTime,
      v \in -1..MaxTime,
      sv \in {[good |-> FALSE, text |-> ""]}
               \cup { [good |-> TRUE, text |-> t] : t \in Scripts },
      ys \in Scripts, g \in BOOLEAN, x \in BOOLEAN }

InitSynth ==
  /\ status = [t \in Tasks |-> None]
  /\ valid = [t \in Tasks |-> t = "SYNTHESIS"]
  /\ enabled = [t \in Tasks |-> TRUE]
  /\ cmd = [t \in Tasks |-> IF t = "SYNTHESIS" THEN << "synth" >> ELSE << >>]
  /\ m_runStack = << >>
  /\ m_taskCount = 0
  /\ counter = 0
  /\ inflight = {}
  /\ emitted = << >>
  /\ notified = 0
  /\ invoked = << >>
  /\ runTasks = << >>
  /\ runFailed = {}
  /\ doneCount = 0
  /\ runKind = "none"
  /\ atInvoke = [t \in Tasks |-> None]
  /\ statusBefore = [t \in Tasks |-> None]
  /\ compiler \in { c \in Projects :
                      /\ \A f \in InputFiles : c.mtime[f] <= c.now
                      /\ c.netlist <= c.now
                      /\ c.netlistV \in {-1, c.netlist} }
  /\ writes = << >>
  /\ lastOp = [op |-> "init", task |-> "", arg |-> "", active |-> FALSE]

\* What an operation on the files leaves of the manager's variables.
FilesOnly(op, arg) ==
  /\ emitted' = << >>
  /\ notified' = 0
  /\ writes' = << >>
  /\ statusBefore' = status
  /\ lastOp' = [op |-> op, task |-> "", arg |-> arg, active |-> m_runStack # << >>]
  /\ UNCHANGED << status, valid, enabled, cmd, m_runStack, m_taskCount, counter,
                  inflight, invoked, runTasks, runFailed, doneCount, runKind,
                  atInvoke >>

\* An input file is written, in the current tick of the clock or the next.
Touch(f, adv) ==
  /\ compiler.now + adv <= MaxTime
  /\ compiler' = [compiler EXCEPT !.now = @ + adv, !.mtime[f] = compiler.now + adv]
  /\ FilesOnly("touch", f)

\* The configuration is edited: the generated script becomes sc.
EditScript(sc) ==
  /\ compiler.yosysScript # sc
  /\ compiler' = [compiler EXCEPT !.yosysScript = sc]
  /\ FilesOnly("editScript", sc)

\* A call of DesignChanged with the generated script.
DesignChangedCall ==
  /\ compiler' = [compiler EXCEPT !.changed = DesignChanged(compiler, compiler.yosysScript),
                                  !.cwd = DesignChangedCwd(compiler)]
  /\ FilesOnly("designChanged", "")

\* startTask(SYNTHESIS); o is what the tool does when it is executed.
RunSynthesis(o) ==
  /\ LET st == startTask([Cur EXCEPT !.compiler.tool = o], "SYNTHESIS")
     IN Commit([st EXCEPT !.compiler.tool = "ok"])
  /\ lastOp' = [op |-> "synthesize", task |-> "SYNTHESIS", arg |-> o,
                active |-> m_runStack # << >>]
  /\ UNCHANGED << valid, enabled, cmd >>

NextSynth ==
  \/ \E f \in InputFiles, adv \in {0, 1} : Touch(f, adv)
  \/ \E sc \in Scripts : EditScript(sc)
  \/ DesignChangedCall
  \/ \E o \in ToolOutcomes : RunSynthesis(o)

SpecSynth == InitSynth /\ [][NextSynth]_vars

(***************************************************************************)
(* The compiler driven stage by stage, in any order and with any outcome   *)
(* of the tools.                                                           *)
(***************************************************************************)
StageNames ==
  {"IPGenerate", "Packing", "GlobalPlacement", "Placement", "Route",
   "GenerateBitstream"}

\* The stage called name.
StageCall(name, c, env) ==
  CASE name = "IPGenerate" -> IPGenerate(c, env)
    [] name = "Packing" -> Packing(c, env)
    [] name = "GlobalPlacement" -> GlobalPlacement(c, env)
    [] name = "Placement" -> Placement(c, env)
    [] name = "Route" -> Route(c, env)
    [] name = "GenerateBitstream" -> GenerateBitstream(c, env)

\* A call of one stage of the compiler.
Stage(name, env) ==
  /\ compiler' = StageCall(name, compiler, env)
  /\ lastOp' = [op |-> name, task |-> "", arg |-> env, active |-> FALSE]
  /\ UNCHANGED << status, valid, enabled, cmd, m_runStack, m_taskCount, counter,
                  inflight, emitted, notified, invoked, runTasks, runFailed,
                  doneCount, runKind, atInvoke, statusBefore, writes >>

\* A change of the bitstream option.
SetBitsOpt(o) ==
  /\ compiler.bitsOpt # o
  /\ compiler' = [compiler EXCEPT !.bitsOpt = o]
  /\ lastOp' = [op |-> "setBitsOpt", task |-> "", arg |-> o, active |-> FALSE]
  /\ UNCHANGED << status, valid, enabled, cmd, m_runStack, m_taskCount, counter,
                  inflight, emitted, notified, invoked, runTasks, runFailed,
                  doneCount, runKind, atInvoke, statusBefore, writes >>

NextCompile ==
  \/ \E name \in StageNames, env \in Envs : Stage(name, env)
  \/ \E o \in BitstreamOpts : SetBitsOpt(o)

SpecCompile == InitExt /\ [][NextCompile]_vars

(***************************************************************************)
(* Helpers of the properties.                                              *)
(***************************************************************************)
InProgressTasks(f) == { t \in Tasks : f[t] = InProgress }

\* Position of task t in the execution queue (0 when it is not queued).
QueuePos(t) ==
  IF \E i \in 1..Len(m_taskQueue) : m_taskQueue[i] = t
    THEN CHOOSE i \in 1..Len(m_taskQueue) : m_taskQueue[i] = t
    ELSE 0

\* The tasks positioned after t in the execution queue.
Downstream(t) ==
  IF QueuePos(t) = 0
    THEN {}
    ELSE { m_taskQueue[i] : i \in (QueuePos(t) + 1)..Len(m_taskQueue) }

Signals(log) == { log[i].sig : i \in 1..Len(log) }

\* The enabled stages, in pipeline order.
EnabledStages == SelectSeq(Pipeline, LAMBDA x : enabled[x])

IsPrefix(p, q) == Len(p) <= Len(q) /\ \A i \in 1..Len(p) : p[i] = q[i]

C2_StartAllRejected ==
  [][ (lastOp'.op = "startAll" /\ m_runStack # << >>)
        => /\ m_runStack' = m_runStack
           /\ m_taskCount' = m_taskCount
           /\ counter' = counter
           /\ status' = status
           /\ "started" \notin Signals(emitted') ]_vars

\* startAll() was called while a run of at least two tasks had a task running.
C2_Witness ==
  /\ lastOp.op = "startAll" /\ lastOp.active
  /\ Len(m_runStack) >= 2
  /\ InProgressTasks(status) # {}

(***************************************************************************)
(* C3.  Abort-on-fail: once a stage of a startAll() run has reported Fail, *)
(* the run stack is empty, every stage that followed the failed one in the *)
(* run has status None and none of them had its command invoked.           *)
(***************************************************************************)
C3_AbortOnFail ==
  (runKind = "all" /\ runFailed # {})
    => /\ m_runStack = << >>
       /\ \A i \in 1..Len(runTasks) : \A j \in (i + 1)..Len(runTasks) :
            runTasks[i] \in runFailed
              => /\ status[runTasks[j]] = None
                 /\ runTasks[j] \notin Range(invoked)

\* The second stage of a run of three failed after the first succeeded.
C3_Witness ==
  /\ runKind = "all"
  /\ Len(runTasks) >= 3
  /\ runTasks[2] \in runFailed
  /\ status[runTasks[1]] = Success
  /\ lastOp.op = "actionDone" /\ lastOp.arg = Fail

(***************************************************************************)
(* C4.  Downstream invalidation: at the moment the command of the head of  *)
(* the run stack is invoked, every task positioned after it in the         *)
(* execution queue has status None, also the tasks that are not on the run *)
(* stack and held Success or Fail from an earlier run.                     *)
(***************************************************************************)
C4_DownstreamInvalidation ==
  invoked # << >>
    => \A t \in Downstream(invoked[Len(invoked)]) : atInvoke[t] = None

\* startTask on the first stage while the second, not on the run stack, held
\* Success from an earlier run.
C4_Witness ==
  /\ lastOp.op = "startTask"
  /\ invoked = << lastOp.task >>
  /\ runTasks = << lastOp.task >>
  /\ \E t \in Downstream(lastOp.task) :
       /\ type(t) # "Clean"
       /\ statusBefore[t] = Success
       /\ atInvoke[t] = None

(***************************************************************************)
(* C5.  Ordering: for every enable configuration of the ten stages, the    *)
(* commands a startAll() run invokes while no stage has failed are a       *)
(* prefix of the enabled stages in pipeline order, and when the run has    *)
(* emptied the run stack they are exactly the enabled stages in pipeline   *)
(* order: no disabled stage is triggered.                                  *)
(***************************************************************************)
C5_Ordering ==
  (runKind = "all" /\ runFailed = {})
    => /\ IsPrefix(invoked, EnabledStages)
       /\ (m_runStack = << >> => invoked = EnabledStages)

\* A run over at least three enabled stages, with a disabled stage between
\* two of them, has completed.
C5_Witness ==
  /\ runKind = "all" /\ runFailed = {} /\ m_runStack = << >>
  /\ lastOp.op = "actionDone"
  /\ Len(invoked) >= 3
  /\ \E i, j, k \in 1..Len(Pipeline) :
       /\ i < j /\ j < k
       /\ enabled[Pipeline[i]] /\ ~enabled[Pipeline[j]] /\ enabled[Pipeline[k]]

(***************************************************************************)
(* C6.  Every task on the run stack has a bound command and is enabled.    *)
(***************************************************************************)
C6_StackBoundAndEnabled ==
  \A i \in 1..Len(m_runStack) : valid[m_runStack[i]] /\ enabled[m_runStack[i]]

(***************************************************************************)
(* C7.  startTask(id) called while a run is active, or on an unbound or    *)
(* disabled task, changes neither the run stack, nor the counters, nor any *)
(* task status, and emits no signal.                                       *)
(***************************************************************************)
C7_StartTaskRejected ==
  [][ ( /\ lastOp'.op = "startTask"
        /\ \/ m_runStack # << >>
           \/ ~valid[lastOp'.task]
           \/ ~enabled[lastOp'.task] )
        => /\ m_runStack' = m_runStack
           /\ m_taskCount' = m_taskCount
           /\ counter' = counter
           /\ status' = status
           /\ emitted' = << >> ]_vars

\* startTask on a disabled stage that is bound, with no run active and
\* statuses left by an earlier run.
C7_Witness ==
  /\ lastOp.op = "startTask" /\ ~lastOp.active
  /\ valid[lastOp.task] /\ ~enabled[lastOp.task]
  /\ \E t \in Tasks : status[t] = Success

(***************************************************************************)
(* C9.  Cancellation is handled like a tool failure: a stopCurrentTask()   *)
(* called while the head of the run stack is InProgress leaves the head    *)
(* Fail, empties the run stack, emits progress "<title> Failed" and then   *)
(* done(), invokes no command; and no command is invoked afterwards unless *)
(* a new run is started.                                                   *)
(***************************************************************************)
C9_CancelLikeFail ==
  [][ /\ ( /\ lastOp'.op = "stopCurrentTask"
           /\ m_runStack # << >>
           /\ status[Head(m_runStack)] = InProgress )
         => /\ status'[Head(m_runStack)] = Fail
            /\ m_runStack' = << >>
            /\ Len(emitted') = 2
            /\ emitted'[1].sig = "progress"
            /\ emitted'[1].text = << title(Head(m_runStack)), "Failed" >>
            /\ emitted'[1].completed = counter + 1
            /\ emitted'[2].sig = "done"
            /\ invoked' = invoked
      /\ (invoked' # invoked) => (m_runStack # << >> \/ "started" \in Signals(emitted'))
    ]_vars

\* The first stage of a run of three was stopped: two stages remain untouched.
C9_Witness ==
  /\ lastOp.op = "stopCurrentTask" /\ lastOp.active
  /\ runKind = "all" /\ Len(runTasks) >= 3
  /\ statusBefore[runTasks[1]] = InProgress
  /\ status[runTasks[1]] = Fail
  /\ m_runStack = << >>

(***************************************************************************)
(* C8.  Idempotent notification: every Task::setStatus(s) call reaches the *)
(* manager, also when s equals the task's current status: the notification *)
(* is forwarded as taskStateChanged, exactly once when the write starts no *)
(* further task, and a finished status advances counter by one and emits   *)
(* one progress signal for the task, so n consecutive setStatus(Success)   *)
(* calls give n of them.                                                   *)
(***************************************************************************)
C8_EveryWriteNotifies ==
  [][ lastOp'.op = "setStatus"
        => /\ notified' >= 1
           /\ (lastOp'.arg # Success \/ m_runStack' = << >>) => notified' = 1
           /\ lastOp'.arg \in {Success, Fail}
                => /\ counter' = counter + 1
                   /\ emitted' # << >>
                   /\ emitted'[1].sig = "progress"
                   /\ emitted'[1].task = lastOp'.task
                   /\ emitted'[1].completed = counter + 1 ]_vars

\* A second setStatus(Success) in a row on a task that is already Success.
C8_Witness ==
  /\ lastOp.op = "setStatus" /\ lastOp.arg = Success
  /\ statusBefore[lastOp.task] = Success
  /\ notified = 1
  /\ counter >= 2

(***************************************************************************)
(* C10.  stopCurrentTask() sets every task that is InProgress to Fail and  *)
(* leaves the status of every other task unchanged; when it returns no     *)
(* task is InProgress.                                                     *)
(***************************************************************************)
C10_StopFrame ==
  [][ lastOp'.op = "stopCurrentTask"
        => /\ \A t \in Tasks :
                status'[t] = IF status[t] = InProgress THEN Fail ELSE status[t]
           /\ InProgressTasks(status') = {} ]_vars

\* stopCurrentTask() was called with two tasks InProgress, one of them not
\* the head of the run stack.
C10_Witness ==
  /\ lastOp.op = "stopCurrentTask" /\ lastOp.active
  /\ Cardinality(InProgressTasks(statusBefore)) >= 2
  /\ InProgressTasks(status) = {}
  /\ \A t \in InProgressTasks(statusBefore) : status[t] = Fail

\* The progress events of a finished status ("Complete" or "Failed") in a
\* signal log, in the order of their emission.
Finished(log) ==
  SelectSeq(log, LAMBDA e : e.sig = "progress" /\ e.text[2] \in {"Complete", "Failed"})

(***************************************************************************)
(* C11.  Progress counting: in every step of a run the progress events of  *)
(* finished statuses carry the completed values base + 1, base + 2, ...    *)
(* in that order (base is 0 when the step started the run, the counter     *)
(* before the step otherwise), the total is the number of tasks put on the *)
(* run stack when the run started, the text is the task's title with       *)
(* "Complete" for Success and "Failed" for Fail, and counter advances by   *)
(* one per event; a completion reported by a command gives such an event   *)
(* for its task, and a run whose tasks all succeeded ends with counter     *)
(* equal to the total.                                                     *)
(***************************************************************************)
C11_ProgressCounting ==
  [][ LET fin == Finished(emitted')
          base == IF "started" \in Signals(emitted') THEN 0 ELSE counter
      IN /\ \A i \in 1..Len(fin) :
              /\ fin[i].completed = base + i
              /\ fin[i].total = Len(runTasks')
              /\ fin[i].text[1] = title(fin[i].task)
              /\ status'[fin[i].task] =
                   IF fin[i].text[2] = "Complete" THEN Success ELSE Fail
         /\ counter' = base + Len(fin)
         /\ lastOp'.op = "actionDone"
              => /\ Len(fin) >= 1
                 /\ fin[1].task = lastOp'.task
                 /\ fin[1].text[2] =
                      IF lastOp'.arg = Success THEN "Complete" ELSE "Failed"
         /\ (runFailed' = {} /\ m_runStack' = << >> /\ runTasks' # << >>)
              => /\ counter' = Len(runTasks')
                 /\ \A i \in 1..Len(runTasks') : status'[runTasks'[i]] = Success
    ]_vars

\* One startAll() ran at least three stages whose commands all reported
\* Success at once: the log holds their "Complete" events.
C11_Witness ==
  /\ lastOp.op = "startAll" /\ ~lastOp.active
  /\ Len(Finished(emitted)) >= 3
  /\ counter = Len(runTasks)
  /\ m_runStack = << >>
  /\ \E i \in 1..Len(emitted) : emitted[i].sig = "done"

\* An input file that cannot be stat'd or is newer than the artifact.
StaleInputs(c) ==
  { f \in InputFiles : c.mtime[f] = -1 \/ c.mtime[f] > c.netlist }

(***************************************************************************)
(* C12.  Change detector: DesignChanged reports "changed" if and only if   *)
(* the output artifact is missing, or some design file, include path or    *)
(* library path cannot be stat'd or is strictly newer than the artifact,   *)
(* or the saved script is unreadable or differs from the generated one.    *)
(***************************************************************************)
C12_ChangeDetector ==
  lastOp.op = "designChanged"
    => ( compiler.changed
           <=> \/ compiler.netlist = -1
               \/ StaleInputs(compiler) # {}
               \/ ~compiler.savedScript.good
               \/ compiler.savedScript.text # compiler.yosysScript )

\* Artifact present, script saved and identical, and touching the library
\* path alone made it newer than the artifact: the detector says changed.
C12_Witness ==
  /\ lastOp.op = "designChanged"
  /\ compiler.changed
  /\ compiler.netlist # -1
  /\ compiler.savedScript = [good |-> TRUE, text |-> compiler.yosysScript]
  /\ StaleInputs(compiler) = {"lib"}
  /\ compiler.mtime["lib"] > compiler.netlist
  /\ compiler.m_state = "Synthesized"

(***************************************************************************)
(* C13.  Incremental skip: when the change detector reports "unchanged",   *)
(* Synthesize executes no tool, writes no script, deletes no artifact and  *)
(* returns true, and the Synthesis task becomes Success.                   *)
(***************************************************************************)
C13_IncrementalSkip ==
  [][ ( /\ lastOp'.op = "synthesize"
        /\ ~compiler.gateLevel
        /\ ~compiler'.changed )
        => /\ ~compiler'.executed
           /\ ~compiler'.wrote
           /\ ~compiler'.removed
           /\ compiler'.netlist = compiler.netlist
           /\ compiler'.netlistV = compiler.netlistV
           /\ compiler'.savedScript = compiler.savedScript
           /\ compiler'.result
           /\ status'["SYNTHESIS"] = Success ]_vars

\* A second synthesis of an unchanged design, after one that ran the tool.
C13_Witness ==
  /\ lastOp.op = "synthesize"
  /\ ~compiler.gateLevel /\ ~compiler.changed
  /\ compiler.m_state = "Synthesized"
  /\ compiler.netlist # -1
  /\ compiler.result
  /\ status["SYNTHESIS"] = Success

(***************************************************************************)
(* C14.  Clean head: when startTask starts a Clean sub-task of the         *)
(* execution queue, then at the invocation of its command the parent stage *)
(* (one position earlier) and every task after it in the queue have status *)
(* None, the Clean task itself having just been set InProgress by its      *)
(* trigger, while every task before the parent, and every task outside the *)
(* queue, has the status it had before the call.                           *)
(***************************************************************************)
C14_CleanHead ==
  ( /\ lastOp.op = "startTask"
    /\ "started" \in Signals(emitted)
    /\ invoked = << lastOp.task >>
    /\ type(lastOp.task) = "Clean"
    /\ QueuePos(lastOp.task) > 1 )
    => LET parent == QueuePos(lastOp.task) - 1 IN
       /\ \A i \in 1..Len(m_taskQueue) :
            atInvoke[m_taskQueue[i]] =
              IF i < parent THEN statusBefore[m_taskQueue[i]]
              ELSE IF m_taskQueue[i] = lastOp.task THEN InProgress
              ELSE None
       /\ \A t \in Tasks \ Range(m_taskQueue) : atInvoke[t] = statusBefore[t]

\* ANALYSIS_CLEAN was started while IP_GENERATE, ANALYSIS and a later stage
\* held a finished status from an earlier run.
C14_Witness ==
  /\ lastOp.op = "startTask" /\ lastOp.task = "ANALYSIS_CLEAN"
  /\ "started" \in Signals(emitted)
  /\ invoked = << "ANALYSIS_CLEAN" >>
  /\ statusBefore["IP_GENERATE"] = Success /\ atInvoke["IP_GENERATE"] = Success
  /\ statusBefore["ANALYSIS"] = Success /\ atInvoke["ANALYSIS"] = None
  /\ statusBefore["SYNTHESIS"] \in {Success, Fail}
  /\ atInvoke["SYNTHESIS"] = None

C16_TriggerNoOp ==
  [][ /\ ( /\ "started" \in Signals(emitted')
           /\ m_runStack' # << >>
           /\ (~valid[Head(m_runStack')] \/ ~enabled[Head(m_runStack')]) )
         => /\ invoked' = << >>
            /\ writes' = << >>
            /\ status'[Head(m_runStack')] = None
            /\ InProgressTasks(status') = {}
      /\ \A t \in Tasks :
           (status'[t] = InProgress /\ status[t] # InProgress)
             => valid[t] /\ enabled[t]
      /\ \A i \in 1..Len(invoked') :
           valid'[invoked'[i]] /\ enabled'[invoked'[i]]
    ]_vars

\* startAll() with an unbound first stage at the head of the run stack and
\* a bound stage behind it.
C16_Witness ==
  /\ lastOp.op = "startAll" /\ "started" \in Signals(emitted)
  /\ Len(m_runStack) >= 2
  /\ ~valid[m_runStack[1]] /\ enabled[m_runStack[1]]
  /\ valid[m_runStack[2]]
  /\ status[m_runStack[1]] = None
  /\ invoked = << >>

(***************************************************************************)
(* C17.  Start ordering: a startAll() called with an empty run stack, and  *)
(* a startTask() called with an empty run stack on a bound and enabled     *)
(* task, emits started() exactly once and as the first signal of the call; *)
(* at that moment m_taskCount is the size of the run stack and counter is  *)
(* 0; the command of the first task is invoked after it, and every         *)
(* progress event of the call comes after it.                              *)
(***************************************************************************)
C17_StartOrdering ==
  [][ LET accepted ==
            \/ lastOp'.op = "startAll" /\ m_runStack = << >>
            \/ /\ lastOp'.op \in {"startTask", "synthesize"}
               /\ m_runStack = << >>
               /\ valid[lastOp'.task] /\ enabled[lastOp'.task]
      IN /\ accepted => "started" \in Signals(emitted')
         /\ "started" \in Signals(emitted')
              => /\ accepted
                 /\ emitted'[1].sig = "started"
                 /\ \A i \in 2..Len(emitted') : emitted'[i].sig # "started"
                 /\ emitted'[1].total = Len(runTasks')
                 /\ emitted'[1].completed = 0
                 /\ m_taskCount' = Len(runTasks')
                 /\ (runTasks' # << >> /\ valid[runTasks'[1]])
                      => /\ invoked' # << >>
                         /\ invoked'[1] = runTasks'[1]
                         /\ Len(emitted') >= 2
                         /\ emitted'[2] = [sig |-> "progress", completed |-> 0,
                                           total |-> Len(runTasks'),
                                           task |-> runTasks'[1],
                                           text |-> << title(runTasks'[1]), "Running" >>]
    ]_vars

\* A second startAll(), after a run of another size whose counter had
\* advanced, started a run of at least two tasks.
C17_Witness ==
  /\ lastOp.op = "startAll" /\ ~lastOp.active
  /\ emitted # << >> /\ emitted[1].sig = "started"
  /\ emitted[1].total >= 2
  /\ invoked # << >>
  /\ \E t \in Tasks : statusBefore[t] \in {Success, Fail}

\* The status a command that reports before it returns sets.
Outcome(c) == IF c = "ok" THEN Success ELSE Fail

(***************************************************************************)
(* C18.  Rebinding replaces the action: when a task on which               *)
(* bindTaskCommand was called more than once is started, only the command  *)
(* bound last is invoked, once: the task is set InProgress and then to the *)
(* status that command reports, and nothing else is written.               *)
(***************************************************************************)
C18_RebindReplaces ==
  [][ ( /\ lastOp'.op = "startTask"
        /\ "started" \in Signals(emitted')
        /\ Len(cmd[lastOp'.task]) >= 2 )
        => /\ Len(writes') = 2
           /\ writes'[1].to = InProgress
           /\ writes'[2].to = Outcome(cmd[lastOp'.task][Len(cmd[lastOp'.task])])
           /\ doneCount' = 1 ]_vars

(***************************************************************************)
(* C19.  reset() leaves every task of the registry with status None,       *)
(* delivers one status-change notification per task, changes neither the   *)
(* run stack nor m_taskCount nor counter, and emits no signal, also when   *)
(* the run stack is non-empty.                                             *)
(***************************************************************************)
C19_ResetFrame ==
  [][ lastOp'.op = "reset"
        => /\ \A t \in Tasks : status'[t] = None
           /\ notified' = Len(m_tasks)
           /\ m_runStack' = m_runStack
           /\ m_taskCount' = m_taskCount
           /\ counter' = counter
           /\ emitted' = << >> ]_vars

\* reset() was called during a run whose first task had succeeded and whose
\* second was InProgress.
C19_Witness ==
  /\ lastOp.op = "reset" /\ lastOp.active
  /\ m_runStack # << >>
  /\ counter >= 1
  /\ \E t \in Tasks : statusBefore[t] = InProgress
  /\ \E t \in Tasks : statusBefore[t] = Success
  /\ \A t \in Tasks : status[t] = None

(***************************************************************************)
(* C20.  Aggregate status: status() returns InProgress if and only if at   *)
(* least one task of the registry has status InProgress, and None          *)
(* otherwise; it never returns Success or Fail.                            *)
(***************************************************************************)
C20_AggregateStatus ==
  lastOp.op = "status"
    => /\ lastOp.arg \in {InProgress, None}
       /\ lastOp.arg = InProgress <=> (\E t \in Tasks : status[t] = InProgress)

\* status() returned None with one task Success and another Fail.
C20_Witness ==
  /\ lastOp.op = "status" /\ lastOp.arg = None
  /\ \E t \in Tasks : status[t] = Success
  /\ \E t \in Tasks : status[t] = Fail

C28_FailedNotSkipped ==
  [][ ( /\ lastOp.op = "synthesize" /\ ~compiler.result
        /\ lastOp'.op = "synthesize"
        /\ ~compiler.gateLevel )
        => /\ compiler'.changed
           /\ compiler'.result => compiler'.executed ]_vars

(***************************************************************************)
(* C22.  done() is emitted at most once per run: after a started() event   *)
(* and before the next one at most one done() event is emitted, also when  *)
(* the bound actions report inside trigger().                              *)
(***************************************************************************)
C22_DoneOncePerRun == doneCount <= 1

(***************************************************************************)
(* C23.  Run termination: once started() was emitted and every invoked     *)
(* action has reported, the run stack is empty and done() was emitted for  *)
(* that run, also for a startAll() with no stage enabled and for one with  *)
(* an enabled stage that has no bound action.                              *)
(***************************************************************************)
C23_RunTerminates ==
  (runKind # "none" /\ inflight = {})
    => (m_runStack = << >> /\ doneCount >= 1)

(***************************************************************************)
(* C24.  Only the head of the run stack drives a run: a Success or Fail    *)
(* status write on a task that is not the head leaves the run stack as it  *)
(* was and triggers nothing, so no task is invoked a second time in a run. *)
(***************************************************************************)
C24_OnlyHeadDrives ==
  [][ ( /\ lastOp'.op = "setStatus"
        /\ lastOp'.arg \in {Success, Fail}
        /\ m_runStack # << >>
        /\ Head(m_runStack) # lastOp'.task )
        => /\ m_runStack' = m_runStack
           /\ invoked' = invoked ]_vars

(***************************************************************************)
(* C25.  Every progress(completed, total, message) event emitted has       *)
(* 0 <= completed <= total, also for finished-status writes made after a   *)
(* run has ended and for repeated finished-status writes on one task.      *)
(***************************************************************************)
C25_ProgressInRange ==
  \A i \in 1..Len(emitted) :
    emitted[i].sig = "progress"
      => (0 <= emitted[i].completed /\ emitted[i].completed <= emitted[i].total)

(***************************************************************************)
(* C26.  Cancel/completion race: after stopCurrentTask() forced a running  *)
(* task to Fail and the run was aborted, a late Success or Fail write for  *)
(* that task does not leave it with status Success and emits no further    *)
(* progress or done() event.                                               *)
(***************************************************************************)
C26_LateReportIgnored ==
  [][ ( /\ lastOp.op = "stopCurrentTask"
        /\ lastOp'.op = "setStatus"
        /\ lastOp'.arg \in {Success, Fail}
        /\ statusBefore[lastOp'.task] = InProgress
        /\ status[lastOp'.task] = Fail
        /\ m_runStack = << >> )
        => /\ status'[lastOp'.task] # Success
           /\ \A i \in 1..Len(emitted') :
                emitted'[i].sig \notin {"progress", "done"} ]_vars

(***************************************************************************)
(* C27.  Upstream preservation: an accepted startTask(id) leaves unchanged *)
(* the status of every task positioned in the execution queue before the   *)
(* target (before the target's parent when the target is Clean-type) and   *)
(* of every task outside the execution queue, other than the target.       *)
(***************************************************************************)
C27_UpstreamPreserved ==
  [][ ( /\ lastOp'.op = "startTask"
        /\ m_runStack = << >>
        /\ valid[lastOp'.task] /\ enabled[lastOp'.task] )
        => LET t == lastOp'.task
               from == IF type(t) = "Clean" /\ QueuePos(t) > 1
                         THEN QueuePos(t) - 1 ELSE QueuePos(t)
           IN \A u \in Tasks \ {t} :
                (QueuePos(u) = 0 \/ (QueuePos(t) # 0 /\ QueuePos(u) < from))
                  => status'[u] = status[u] ]_vars

\* startTask of a stage was accepted while an earlier stage and a task
\* outside the queue kept the finished status of their own runs.
C27_Witness ==
  /\ lastOp.op = "startTask" /\ lastOp.task = Pipeline[2]
  /\ status[Pipeline[2]] = InProgress
  /\ runKind = "task" /\ runTasks = << Pipeline[2] >>
  /\ status[Pipeline[1]] \in {Success, Fail}
  /\ statusBefore[Pipeline[1]] = status[Pipeline[1]]
  /\ status["SIMULATE_RTL"] \in {Success, Fail}

(***************************************************************************)
(* C29.  In the execution queue every Clean-type task is immediately       *)
(* preceded by the stage that is its parent in the sub-task relation and   *)
(* the first element is not Clean-type, so the step back from a Clean head *)
(* lands on its own parent: a run started on a Clean task leaves that      *)
(* parent with status None.  Every task of the queue is registered in the  *)
(* id lookup table.                                                        *)
(***************************************************************************)
C29_CleanFollowsParent ==
  /\ type(m_taskQueue[1]) # "Clean"
  /\ \A i \in 2..Len(m_taskQueue) :
       type(m_taskQueue[i]) = "Clean"
         => << m_taskQueue[i - 1], m_taskQueue[i] >> \in Range(subTasks)
  /\ \A i \in 1..Len(m_taskQueue) : m_taskQueue[i] \in Range(m_tasks)
  /\ ( /\ lastOp.op = "startTask" /\ ~lastOp.active
       /\ type(lastOp.task) = "Clean"
       /\ m_runStack = << lastOp.task >> )
       => \A i \in 1..Len(subTasks) :
            subTasks[i][2] = lastOp.task => status[subTasks[i][1]] = None

\* A run was started on Analysis's Clean task while Analysis held Success.
C29_Witness ==
  /\ lastOp.op = "startTask" /\ ~lastOp.active
  /\ lastOp.task = "ANALYSIS_CLEAN"
  /\ m_runStack = << "ANALYSIS_CLEAN" >>
  /\ statusBefore["ANALYSIS"] = Success
  /\ status["ANALYSIS"] = None

(***************************************************************************)
(* C30.  Compiler stage preconditions: the state becomes Routed only by a  *)
(* Route call made in state Placed whose tool run succeeded; it becomes    *)
(* GloballyPlaced or Placed only by a call made in state Packed,           *)
(* GloballyPlaced or Placed; and a GlobalPlacement, Placement, Route or    *)
(* (without bitstream option) GenerateBitstream call whose state           *)
(* precondition fails returns false, runs no tool and leaves the state     *)
(* unchanged.                                                              *)
(***************************************************************************)
C30_StagePreconditions ==
  [][ /\ (compiler'.m_state = "Routed" /\ compiler.m_state # "Routed")
           => /\ lastOp'.op = "Route" /\ lastOp'.arg = "ok"
              /\ compiler.m_state = "Placed"
              /\ compiler'.executed /\ compiler'.result
      /\ ( /\ compiler'.m_state \in {"GloballyPlaced", "Placed"}
           /\ compiler'.m_state # compiler.m_state )
           => /\ lastOp'.op \in {"GlobalPlacement", "Placement"}
              /\ compiler.m_state \in PlacementReady
      /\ ( \/ /\ lastOp'.op \in {"GlobalPlacement", "Placement"}
              /\ compiler.m_state \notin PlacementReady
           \/ /\ lastOp'.op = "Route"
              /\ compiler.m_state # "Placed"
           \/ /\ lastOp'.op = "GenerateBitstream"
              /\ compiler.bitsOpt = "NoBitsOpt"
              /\ compiler.m_state # "Routed" )
           => /\ ~compiler'.result
              /\ ~compiler'.executed
              /\ compiler'.m_state = compiler.m_state
    ]_vars

\* The design was routed by a Route call whose tool run succeeded.
C30_Witness ==
  /\ lastOp.op = "Route" /\ lastOp.arg = "ok"
  /\ compiler.m_state = "Routed"
  /\ compiler.executed /\ compiler.result

====
